---------------------------- MODULE Spec2Model ----------------------------
(***************************************************************************)
(* Generalised k-in-a-row grid game with adversarial search                *)
(* (src/src/mainTest_Rushi.py): Board, TicTacToe rules, k_in_row, the      *)
(* memoised exhaustive minimax, the depth-bounded alpha-beta search, the   *)
(* window heuristic, the player wrappers and play_game.                    *)
(***************************************************************************)
EXTENDS Integers, Sequences, FiniteSets, TLC

VARIABLES
    game,       \* the TicTacToe instance: [width, height, k]
    order,      \* iteration order of the set returned by actions()
    board,      \* the Board object a caller holds (play_game's `state`)
    child,      \* the Board returned by the last result(board, square), or NoBoard
    lastMove,   \* the square passed to the last result() call, or NoMove
    registry,   \* module-level _state_registry: hash -> Board
    expansions, \* how many result() calls the caller made on the current board
    out,        \* what the last heuristic / search / strategy call returned, or NoOut
    pc,         \* "play" while moves are applied, then "search" or "done"
    calls       \* the minimax_search_tt calls running on threads, see IdleCalls

vars == <<game, order, board, child, lastMove, expansions, registry, out, pc, calls>>

(***************************************************************************)
(* Sentinels                                                               *)
(***************************************************************************)
empty == "."
off == "#"
NoMove == <<-1, -1>>
NoBoard == [none |-> TRUE]
NoOut == [kind |-> "none"]
\* math.inf: every value the searches compare lies strictly inside
\* (-infinity, +infinity); heuristic sums stay far below this magnitude.
infinity == 100000000

Max(a, b) == IF a >= b THEN a ELSE b
Min(a, b) == IF a <= b THEN a ELSE b

(***************************************************************************)
(* Board                                                                   *)
(***************************************************************************)
\* Board.__init__: an empty dict with width, height, to_move, utility and
\* (optionally) k; k = 0 stands for "attribute k not set".
BoardInit(width, height, to_move, utility, k) ==
    [marks |-> << >>, width |-> width, height |-> height,
     to_move |-> to_move, utility |-> utility, k |-> k]

\* dict.update(changes) for a one-entry dict {square: mark}
DictUpdate(marks, square, mark) ==
    [s \in (DOMAIN marks) \cup {square} |->
        IF s = square THEN mark ELSE marks[s]]

\* variant of Board.new that updates the receiver in place and returns it
BoardNewInPlace(hp, self, square, mark, to_move) ==
    LET changed == [hp[self] EXCEPT !.marks = DictUpdate(@, square, mark),
                                    !.to_move = to_move]
    IN  Append([hp EXCEPT ![self] = changed], changed)

\* Board.new on a heap of Board objects: allocates a fresh object, copies the
\* entries of hp[self], applies the change, copies utility and k.
\* Returns the heap after the call; the new object is the last one.
BoardNew(hp, self, square, mark, to_move) ==
    LET fresh == BoardInit(hp[self].width, hp[self].height, to_move, 0, 0)
        copied == [fresh EXCEPT !.marks = hp[self].marks]
        changed == [copied EXCEPT !.marks = DictUpdate(copied.marks, square, mark)]
        withU == [changed EXCEPT !.utility = hp[self].utility]
        withK == IF hp[self].k # 0 THEN [withU EXCEPT !.k = hp[self].k] ELSE withU
    IN  Append(hp, withK)

\* Board.__missing__ / dict lookup: board[(x, y)]
Get(b, loc) ==
    IF loc \in DOMAIN b.marks THEN b.marks[loc]
    ELSE IF 0 <= loc[1] /\ loc[1] < b.width /\ 0 <= loc[2] /\ loc[2] < b.height
         THEN empty
         ELSE off

(***************************************************************************)
(* k_in_row                                                                *)
(***************************************************************************)
RECURSIVE count_in_row(_, _, _, _, _, _)
count_in_row(b, player, x, y, dx, dy) ==
    IF <<x, y>> \in DOMAIN b.marks /\ b.marks[<<x, y>>] = player
    THEN 1 + count_in_row(b, player, x + dx, y + dy, dx, dy)
    ELSE 0

\* variant of the directions that leaves out the two diagonals
DirectionsStraight == {<<0, 1>>, <<1, 0>>}

\* k_in_row: directions
Directions == {<<0, 1>>, <<1, 0>>, <<1, 1>>, <<1, -1>>}

\* variant of k_in_row that counts the placed square twice
k_in_row_double(b, player, square, k) ==
    \E d \in Directions :
        count_in_row(b, player, square[1], square[2], d[1], d[2])
        + count_in_row(b, player, square[1], square[2], -d[1], -d[2]) >= k

k_in_row(b, player, square, k) ==
    \E d \in Directions :
        count_in_row(b, player, square[1], square[2], d[1], d[2])
        + count_in_row(b, player, square[1], square[2], -d[1], -d[2]) - 1 >= k

(***************************************************************************)
(* TicTacToe                                                               *)
(***************************************************************************)
\* TicTacToe.__init__: self.squares
Squares(g) == (0 .. g.width - 1) \X (0 .. g.height - 1)

\* TicTacToe.__init__: self.initial
Initial(g) == BoardInit(g.width, g.height, "X", 0, g.k)

\* variant of actions that only excludes the squares X holds
ActionsNotX(g, b) == Squares(g) \ {s \in DOMAIN b.marks : b.marks[s] = "X"}

\* TicTacToe.actions
Actions(g, b) == Squares(g) \ DOMAIN b.marks

\* variant of the player switch that keeps the same player to move
SamePlayer(player) == player

\* result: 'O' if player == 'X' else 'X'
Other(player) == IF player = "X" THEN "O" ELSE "X"

\* TicTacToe.result on a heap holding the input board as object 1: returns the
\* heap after the call, <<input object, returned object>>.
ResultHeap(g, b, square) ==
    LET player == b.to_move
        hp1 == BoardNew(<<b>>, 1, square, player, Other(player))
        nb == hp1[Len(hp1)]
        win == k_in_row(nb, player, square, g.k)
        u == IF ~win THEN 0 ELSE IF player = "X" THEN 1 ELSE -1
    IN  [hp1 EXCEPT ![Len(hp1)] = [nb EXCEPT !.utility = u, !.k = g.k]]

\* the Board returned by TicTacToe.result
Result(g, b, square) ==
    LET hp == ResultHeap(g, b, square) IN hp[Len(hp)]

\* variant of utility that gives X's score to either player
UtilityOfX(b, player) == b.utility

\* TicTacToe.utility
Utility(b, player) == IF player = "X" THEN b.utility ELSE -b.utility

\* variant of is_terminal that stops only on a won board
IsTerminalWhenWon(g, b) == b.utility # 0

\* variant of is_terminal that stops only on a full grid
IsTerminalWhenFull(g, b) == Cardinality(Squares(g)) = Cardinality(DOMAIN b.marks)

\* TicTacToe.is_terminal
IsTerminal(g, b) == b.utility # 0 \/ Cardinality(Squares(g)) = Cardinality(DOMAIN b.marks)


(***************************************************************************)
(* Iteration order of the set of legal moves                               *)
(***************************************************************************)
\* `for a in game.actions(state)` walks a Python set, whose order the language
\* leaves open.  The model fixes one of NumOrders enumerations of the grid per
\* run (variable order) and walks the legal squares in that enumeration.
SquareAt(g, ord, i) ==
    LET n == g.width * g.height
        rowMajor(j) == <<(j - 1) % g.width, (j - 1) \div g.width>>
        colMajor(j) == <<(j - 1) \div g.height, (j - 1) % g.height>>
    IN  CASE ord = 1 -> rowMajor(i)
          [] ord = 2 -> rowMajor(n + 1 - i)
          [] ord = 3 -> colMajor(i)
          [] OTHER   -> colMajor(n + 1 - i)

ActionsSeq(g, ord, b) ==
    LET all == [i \in 1 .. g.width * g.height |-> SquareAt(g, ord, i)]
        acts == Actions(g, b)
        legal(s) == s \in acts
    IN  SelectSeq(all, legal)

(***************************************************************************)
(* hash -> state registry                                                  *)
(***************************************************************************)
RECURSIVE SumOver(_, _)
\* sum of digit * 3^index over a set of <<index, digit>> pairs
SumOver(S, acc) ==
    IF S = {} THEN acc
    ELSE LET p == CHOOSE q \in S : TRUE
         IN  SumOver(S \ {p}, acc + p[2] * 3 ^ p[1])

\* variant of Board.__hash__ that hashes only which squares are occupied
BoardHashOccupied(b) ==
    LET items == {<<s[1] * b.height + s[2], 1>> : s \in DOMAIN b.marks}
    IN  SumOver(items, 0)

\* Board.__hash__: hash((tuple(sorted(self.items())), self.to_move, self.utility)).
\* The integer is an injective code of that triple: one base-3 digit per grid
\* square in sorted (x, y) order, then the side to move, then the utility.
BoardHash(b) ==
    LET items == {<<s[1] * b.height + s[2], IF b.marks[s] = "X" THEN 1 ELSE 2>> :
                      s \in {t \in DOMAIN b.marks :
                                t[1] \in 0 .. b.width - 1 /\ t[2] \in 0 .. b.height - 1}}
        m == SumOver(items, 0)
        tm == IF b.to_move = "X" THEN 0 ELSE 1
    IN  (m * 2 + tm) * 3 + (b.utility + 1)

(***************************************************************************)
(* Python dicts keyed by a board hash                                      *)
(***************************************************************************)
\* A dict whose keys are board hashes (_state_registry, and the table inside
\* each functools.lru_cache) is held as its keys in insertion order plus a
\* two-level table from key to value, Absent where the key is not stored.
\* The table covers the hashes of every grid of at most 9 squares.
Absent == [absent |-> TRUE]
PageBits == 2 ^ 9
EmptyPage == [j \in 0 .. PageBits - 1 |-> Absent]
EmptyDict == [keys |-> << >>,
              pages |-> [i \in 0 .. (3 ^ 9 * 6) \div PageBits |-> EmptyPage]]

\* key in d
Has(d, key) == d.pages[key \div PageBits][key % PageBits] # Absent

\* d[key]
Lookup(d, key) == d.pages[key \div PageBits][key % PageBits]

\* d[key] = value
Put(d, key, value) ==
    IF Has(d, key)
    THEN [d EXCEPT !.pages[key \div PageBits][key % PageBits] = value]
    ELSE [d EXCEPT !.pages[key \div PageBits][key % PageBits] = value,
                   !.keys = Append(@, key)]

\* the dict as a function from its keys to their values
AsFunction(d) == [h \in {d.keys[i] : i \in 1 .. Len(d.keys)} |-> Lookup(d, h)]

\* a function from hashes to values as a dict, built key by key
RECURSIVE AsDictFrom(_, _, _)
AsDictFrom(f, todo, d) ==
    IF todo = {} THEN d
    ELSE LET h == CHOOSE x \in todo : TRUE
         IN  AsDictFrom(f, todo \ {h}, Put(d, h, f[h]))

\* up to this many keys a dict is built key by key, above it page by page
SmallDict == 64

\* a function from hashes to values as a dict (nothing reads the order of the
\* keys)
AsDict(f) ==
    IF Cardinality(DOMAIN f) <= SmallDict THEN AsDictFrom(f, DOMAIN f, EmptyDict)
    ELSE LET stored(h) == h \in DOMAIN f
         IN  [keys |-> SelectSeq([j \in 1 .. 3 ^ 9 * 6 + 1 |-> j - 1], stored),
              pages |-> [i \in 0 .. (3 ^ 9 * 6) \div PageBits |->
                            [j \in 0 .. PageBits - 1 |->
                                IF i * PageBits + j \in DOMAIN f
                                THEN f[i * PageBits + j] ELSE Absent] @@ << >>]
                        @@ << >>]

\* variant of hash_state that returns the key without storing the state
hash_state_unregistered(reg, state) == <<BoardHash(state), reg>>

\* hash_state: register the state under its hash, return <<hash, registry>>
hash_state(reg, state) ==
    LET h == BoardHash(state) IN <<h, Put(reg, h, state)>>

(***************************************************************************)
(* minimax_search_tt                                                       *)
(***************************************************************************)
\* c is what the closures capture: [g, ord, player], with the number of marks
\* of the root board (marks) for the analysis.
\* mem threads what they share: the module-level registry (reg), the two
\* per-call lru caches (cmax, cmin), whether state_from_hash raised KeyError
\* (raised), and bookkeeping for the analysis: lru hits (hits), the deepest
\* recursion level reached (deep), whether some state_from_hash(h) returned a
\* board other than the one whose key h was passed (stray), and whether some
\* call at recursion level n ran on a board that does not hold exactly n marks
\* more than the root (skew).
NewMem(reg) ==
    [reg |-> reg, cmax |-> EmptyDict, cmin |-> EmptyDict, raised |-> FALSE,
     hits |-> 0, deep |-> 0, stray |-> FALSE, skew |-> FALSE]

\* the memo state after state_from_hash(a.h) returned; a.b is the board the
\* caller handed to hash_state to get the key a.h
Seen(a) ==
    [a.mem EXCEPT !.stray = @ \/ Lookup(a.mem.reg, a.h) # a.b,
                  !.skew = @ \/ Cardinality(DOMAIN Lookup(a.mem.reg, a.h).marks)
                                   # a.c.marks + a.lvl]

\* what a cached call returns: the stored pair, one more hit
Hit(mem, entry) == [v |-> entry.v, move |-> entry.move, mem |-> [mem EXCEPT !.hits = @ + 1]]

\* state_from_hash(h) on a key that is not registered: KeyError
Raise(mem) == [v |-> 0, move |-> NoMove, mem |-> [mem EXCEPT !.raised = TRUE]]

\* lru_cache stores the pair returned by max_value (unless the call raised)
StoreMax(h, r) ==
    IF r.mem.raised THEN r
    ELSE [r EXCEPT !.mem.cmax = Put(@, h, [v |-> r.v, move |-> r.move])]

\* lru_cache stores the pair returned by min_value (unless the call raised)
StoreMin(h, r) ==
    IF r.mem.raised THEN r
    ELSE [r EXCEPT !.mem.cmin = Put(@, h, [v |-> r.v, move |-> r.move])]

\* the variables of one `for a in game.actions(state)` loop: what the closure
\* captures (c), the memo state, the loop's state, its actions in iteration
\* order, the index i of the next pass, the best (v, move) so far, the
\* recursion level; stop is set when the loop is left early (an exception)
LoopStart(c, mem, state, v0, lvl) ==
    [c |-> c, mem |-> [mem EXCEPT !.deep = Max(@, lvl)], state |-> state,
     acts |-> ActionsSeq(c.g, c.ord, state), i |-> 1, v |-> v0, move |-> NoMove,
     lvl |-> lvl, stop |-> FALSE]

\* the pair a loop returns, with the memo state it leaves
LoopResult(st) == [v |-> st.v, move |-> st.move, mem |-> st.mem]

\* the arguments of the recursive call for the loop's current action acts[i]:
\* hash_state(game.result(state, a)) registers the child and gives its key
ChildCall(st) ==
    LET hs == hash_state(st.mem.reg, Result(st.c.g, st.state, st.acts[st.i]))
    IN  [c |-> st.c, mem |-> [st.mem EXCEPT !.reg = hs[2]], h |-> hs[1], lvl |-> st.lvl + 1,
         b |-> Result(st.c.g, st.state, st.acts[st.i])]

\* the loop variables after the body ran for acts[i] with child result r:
\* `if v2 > v: v, move = v2, a` for max_value, `if v2 < v` for min_value
AfterChild(st, r, isMax) ==
    IF r.mem.raised THEN [st EXCEPT !.mem = r.mem, !.stop = TRUE]
    ELSE IF (isMax /\ r.v > st.v) \/ (~isMax /\ r.v < st.v)
    THEN [st EXCEPT !.mem = r.mem, !.i = @ + 1, !.v = r.v, !.move = st.acts[st.i]]
    ELSE [st EXCEPT !.mem = r.mem, !.i = @ + 1]

RECURSIVE max_value_tt(_), min_value_tt(_), max_loop_tt(_), min_loop_tt(_)

\* max_value's loop from pass i on, and the return after it
max_loop_tt(st) ==
    IF st.i > Len(st.acts) \/ st.stop THEN LoopResult(st)
    ELSE max_loop_tt(AfterChild(st, min_value_tt(ChildCall(st)), TRUE))

\* min_value's loop from pass i on, and the return after it
min_loop_tt(st) ==
    IF st.i > Len(st.acts) \/ st.stop THEN LoopResult(st)
    ELSE min_loop_tt(AfterChild(st, max_value_tt(ChildCall(st)), FALSE))

\* max_value(state_hash) behind its lru_cache; a = [c, mem, h, lvl, b]
max_value_tt(a) ==
    IF Has(a.mem.cmax, a.h) THEN Hit(a.mem, Lookup(a.mem.cmax, a.h))
    ELSE IF ~Has(a.mem.reg, a.h) THEN Raise(a.mem)
    ELSE IF IsTerminal(a.c.g, Lookup(a.mem.reg, a.h))
    THEN StoreMax(a.h, [v |-> Utility(Lookup(a.mem.reg, a.h), a.c.player), move |-> NoMove,
                        mem |-> [Seen(a) EXCEPT !.deep = Max(@, a.lvl)]])
    ELSE StoreMax(a.h, max_loop_tt(
                           LoopStart(a.c, Seen(a), Lookup(a.mem.reg, a.h), -infinity, a.lvl)))

\* min_value(state_hash) behind its lru_cache
min_value_tt(a) ==
    IF Has(a.mem.cmin, a.h) THEN Hit(a.mem, Lookup(a.mem.cmin, a.h))
    ELSE IF ~Has(a.mem.reg, a.h) THEN Raise(a.mem)
    ELSE IF IsTerminal(a.c.g, Lookup(a.mem.reg, a.h))
    THEN StoreMin(a.h, [v |-> Utility(Lookup(a.mem.reg, a.h), a.c.player), move |-> NoMove,
                        mem |-> [Seen(a) EXCEPT !.deep = Max(@, a.lvl)]])
    ELSE StoreMin(a.h, min_loop_tt(
                           LoopStart(a.c, Seen(a), Lookup(a.mem.reg, a.h), infinity, a.lvl)))

\* minimax_search_tt(game, state) called with the registry reg (a function
\* from hashes to boards): returns the pair (v, move) with the memo state left
\* behind (mem.reg is the registry after the call).
minimax_search_tt(g, ord, reg, state) ==
    LET c == [g |-> g, ord |-> ord, player |-> state.to_move,
              marks |-> Cardinality(DOMAIN state.marks)]
        hs == hash_state(AsDict(reg), state)
    IN  max_value_tt([c |-> c, mem |-> NewMem(hs[2]), h |-> hs[1], lvl |-> 0, b |-> state])

(***************************************************************************)
(* cutoff_depth and the heuristic                                          *)
(***************************************************************************)
\* cutoff_depth(d): lambda game, state, depth: depth > d
cutoff_depth(d, depth) == depth > d

\* line.count(x) for the line [board[(x0 + i*dx, y0 + i*dy)] for i in range(k)]
LineCount(b, x0, y0, dx, dy, k, what) ==
    Cardinality({i \in 0 .. k - 1 : Get(b, <<x0 + i * dx, y0 + i * dy>>) = what})

\* variant of line_score that scores the player's marks in a window whether
\* or not the opponent is in it
line_score_mixed(b, player, opponent, x0, y0, dx, dy, k) ==
    LET pcount == LineCount(b, x0, y0, dx, dy, k, player)
        ocount == LineCount(b, x0, y0, dx, dy, k, opponent)
    IN  (IF pcount > 0 THEN 10 ^ pcount ELSE 0)
        - (IF pcount = 0 /\ ocount > 0 THEN 10 ^ ocount ELSE 0)

\* line_score of that line
line_score(b, player, opponent, x0, y0, dx, dy, k) ==
    LET pcount == LineCount(b, x0, y0, dx, dy, k, player)
        ocount == LineCount(b, x0, y0, dx, dy, k, opponent)
    IN  (IF ocount = 0 /\ pcount > 0 THEN 10 ^ pcount ELSE 0)
        - (IF pcount = 0 /\ ocount > 0 THEN 10 ^ ocount ELSE 0)

RECURSIVE SumScores(_, _, _, _, _)
\* total_score += line_score(line) over the windows ws, each <<x0, y0, dx, dy>>
SumScores(b, player, opponent, k, ws) ==
    IF ws = {} THEN 0
    ELSE LET w == CHOOSE x \in ws : TRUE
         IN  line_score(b, player, opponent, w[1], w[2], w[3], w[4], k)
             + SumScores(b, player, opponent, k, ws \ {w})

\* the windows the four loop nests of heuristic_5x5_tictactoe visit, each as
\* <<x0, y0, dx, dy>>: range(size) x range(size - k + 1) for rows and
\* columns, range(size - k + 1) squared for the down-right diagonals, and
\* range(size - k + 1) x range(k - 1, size) for the down-left ones
ScannedWindows(size, k) ==
    {<<c, r, 1, 0>> : r \in 0 .. size - 1, c \in 0 .. size - k}
    \cup {<<c, r, 0, 1>> : c \in 0 .. size - 1, r \in 0 .. size - k}
    \cup {<<c, r, 1, 1>> : r \in 0 .. size - k, c \in 0 .. size - k}
    \cup {<<c, r, -1, 1>> : r \in 0 .. size - k, c \in k - 1 .. size - 1}

\* heuristic_5x5_tictactoe(state, player)
heuristic_5x5_tictactoe(b, player) ==
    LET opponent == IF player = "O" THEN "X" ELSE "O"
        size == b.width
        k == IF b.k # 0 THEN b.k ELSE size
    IN  SumScores(b, player, opponent, k, ScannedWindows(size, k))

\* the heuristics a caller passes as h: the default `lambda s, p: 0` and the
\* window heuristic
Heuristics == {"zero", "h5x5"}

H(h, b, player) ==
    IF h = "zero" THEN 0 ELSE heuristic_5x5_tictactoe(b, player)

(***************************************************************************)
(* h_alphabeta_search                                                      *)
(***************************************************************************)
\* c is what the closures capture: [g, ord, player, d, h] (cutoff is
\* cutoff_depth(d)).  stat counts, for the analysis, the calls of h (hc), the
\* loops left early by a prune (cuts) and the nodes visited (nodes).
NoStat == [hc |-> 0, cuts |-> 0, nodes |-> 0]

\* the loop variables at the start of `for a in game.actions(state)`
LoopStartAB(a, v0) ==
    [c |-> a.c, state |-> a.state, acts |-> ActionsSeq(a.c.g, a.c.ord, a.state),
     i |-> 1, v |-> v0, move |-> NoMove, alpha |-> a.alpha, beta |-> a.beta,
     depth |-> a.depth, stat |-> a.stat, stop |-> FALSE]

\* the arguments of the recursive call for the loop's current action
ChildCallAB(st) ==
    [c |-> st.c, state |-> Result(st.c.g, st.state, st.acts[st.i]),
     alpha |-> st.alpha, beta |-> st.beta, depth |-> st.depth + 1, stat |-> st.stat]

\* variant of max_value's loop body that leaves the loop once v reaches alpha
AfterChildMaxEager(st, r) ==
    LET better == r.v > st.v
        v == IF better THEN r.v ELSE st.v
        cut == v >= st.alpha
    IN  [st EXCEPT !.v = v,
                   !.move = IF better THEN st.acts[st.i] ELSE @,
                   !.alpha = IF better THEN Max(@, v) ELSE @,
                   !.i = @ + 1,
                   !.stop = cut,
                   !.stat = IF cut /\ st.i < Len(st.acts)
                            THEN [r.stat EXCEPT !.cuts = @ + 1] ELSE r.stat]

\* max_value's loop body after the recursive call returned r:
\*   if v2 > v: v, move = v2, a; alpha = max(alpha, v)
\*   if v >= beta: return v, move
AfterChildMax(st, r) ==
    LET better == r.v > st.v
        v == IF better THEN r.v ELSE st.v
        cut == v >= st.beta
    IN  [st EXCEPT !.v = v,
                   !.move = IF better THEN st.acts[st.i] ELSE @,
                   !.alpha = IF better THEN Max(@, v) ELSE @,
                   !.i = @ + 1,
                   !.stop = cut,
                   !.stat = IF cut /\ st.i < Len(st.acts)
                            THEN [r.stat EXCEPT !.cuts = @ + 1] ELSE r.stat]

\* variant of min_value's loop body that leaves the loop once v reaches beta
AfterChildMinEager(st, r) ==
    LET better == r.v < st.v
        v == IF better THEN r.v ELSE st.v
        cut == v <= st.beta
    IN  [st EXCEPT !.v = v,
                   !.move = IF better THEN st.acts[st.i] ELSE @,
                   !.beta = IF better THEN Min(@, v) ELSE @,
                   !.i = @ + 1,
                   !.stop = cut,
                   !.stat = IF cut /\ st.i < Len(st.acts)
                            THEN [r.stat EXCEPT !.cuts = @ + 1] ELSE r.stat]

\* min_value's loop body after the recursive call returned r:
\*   if v2 < v: v, move = v2, a; beta = min(beta, v)
\*   if v <= alpha: return v, move
AfterChildMin(st, r) ==
    LET better == r.v < st.v
        v == IF better THEN r.v ELSE st.v
        cut == v <= st.alpha
    IN  [st EXCEPT !.v = v,
                   !.move = IF better THEN st.acts[st.i] ELSE @,
                   !.beta = IF better THEN Min(@, v) ELSE @,
                   !.i = @ + 1,
                   !.stop = cut,
                   !.stat = IF cut /\ st.i < Len(st.acts)
                            THEN [r.stat EXCEPT !.cuts = @ + 1] ELSE r.stat]

\* what a node returns without looping: (value, None)
Leaf(a, v, calledH) ==
    [v |-> v, move |-> NoMove,
     stat |-> [a.stat EXCEPT !.nodes = @ + 1, !.hc = IF calledH THEN @ + 1 ELSE @]]

RECURSIVE max_value_ab(_), min_value_ab(_), max_loop_ab(_), min_loop_ab(_)

max_loop_ab(st) ==
    IF st.i > Len(st.acts) \/ st.stop
    THEN [v |-> st.v, move |-> st.move, stat |-> [st.stat EXCEPT !.nodes = @ + 1]]
    ELSE max_loop_ab(AfterChildMax(st, min_value_ab(ChildCallAB(st))))

min_loop_ab(st) ==
    IF st.i > Len(st.acts) \/ st.stop
    THEN [v |-> st.v, move |-> st.move, stat |-> [st.stat EXCEPT !.nodes = @ + 1]]
    ELSE min_loop_ab(AfterChildMin(st, max_value_ab(ChildCallAB(st))))

\* max_value(state, alpha, beta, depth); a = [c, state, alpha, beta, depth, stat]
max_value_ab(a) ==
    IF IsTerminal(a.c.g, a.state) THEN Leaf(a, Utility(a.state, a.c.player), FALSE)
    ELSE IF cutoff_depth(a.c.d, a.depth) THEN Leaf(a, H(a.c.h, a.state, a.c.player), TRUE)
    ELSE max_loop_ab(LoopStartAB(a, -infinity))

\* min_value(state, alpha, beta, depth)
min_value_ab(a) ==
    IF IsTerminal(a.c.g, a.state) THEN Leaf(a, Utility(a.state, a.c.player), FALSE)
    ELSE IF cutoff_depth(a.c.d, a.depth) THEN Leaf(a, H(a.c.h, a.state, a.c.player), TRUE)
    ELSE min_loop_ab(LoopStartAB(a, infinity))

\* h_alphabeta_search(game, state, cutoff_depth(d), h): the pair (v, move)
h_alphabeta_search(g, ord, state, d, h) ==
    max_value_ab([c |-> [g |-> g, ord |-> ord, player |-> state.to_move, d |-> d, h |-> h],
                  state |-> state, alpha |-> -infinity, beta |-> infinity,
                  depth |-> 0, stat |-> NoStat])

(***************************************************************************)
(* Bounds of the model                                                     *)
(***************************************************************************)
\* iteration orders of actions() tried by a search
NumOrders == 1
\* result() calls a caller makes on one board before moving on to a child
MaxSiblings == 2
\* a search is started from the initial board and from every reachable board
\* with at most MaxEmpty empty squares
MaxEmpty == 3
\* cutoff depths 0 .. MaxDepth are passed to h_alphabeta_search
MaxDepth == 3

\* moves played before a threat position is searched
MaxOpening == 5
\* cutoff depths 1 .. MaxBlockDepth are used on threat positions
MaxBlockDepth == 1

\* the games played: TicTacToe(height, width, k)
Configs ==
    {[width |-> 3, height |-> 3, k |-> 3],
     [width |-> 3, height |-> 3, k |-> 2],
     [width |-> 4, height |-> 2, k |-> 3]}

Empties(g, b) == Cardinality(Actions(g, b))

\* threads that call minimax_search_tt at the same time
NumThreads == 2
Threads == 1 .. NumThreads

\* no call is running.  Per thread t: pc[t] is "idle" before the call, "hashed"
\* once the call evaluated hash_state(state), "done" after it returned;
\* h[t] is the key hash_state gave it and v[t] the value it returned.
\* For the analysis: writer[k] is the thread whose call stored the entry
\* _state_registry[k], inherited[t] the number of entries of _state_registry
\* when the call of t began, readFrom[t] the thread that had stored the entry
\* its state_from_hash(h[t]) read.
IdleCalls ==
    [pc |-> [t \in Threads |-> "idle"], h |-> [t \in Threads |-> 0],
     v |-> [t \in Threads |-> 0], writer |-> << >>,
     inherited |-> [t \in Threads |-> 0], readFrom |-> [t \in Threads |-> 0]]

SearchAllowed(g, b) == b = Initial(g) \/ Empties(g, b) <= MaxEmpty

(***************************************************************************)
(* The program: callers of the game rules, the heuristic and the searches  *)
(***************************************************************************)
Init ==
    /\ game \in Configs
    /\ order = 1
    /\ board = Initial(game)
    /\ child = NoBoard
    /\ lastMove = NoMove
    /\ expansions = 0
    /\ registry = << >>
    /\ calls = IdleCalls
    /\ out = NoOut
    /\ pc = "play"

\* a search expands its current board: child = game.result(board, square),
\* the caller keeps holding board
Expand(square) ==
    /\ pc = "play"
    /\ ~IsTerminal(game, board)
    /\ expansions < MaxSiblings
    /\ square \in Actions(game, board)
    /\ \E hp \in {ResultHeap(game, board, square)} :
          /\ board' = hp[1]
          /\ child' = hp[2]
    /\ lastMove' = square
    /\ expansions' = expansions + 1
    /\ UNCHANGED <<game, order, registry, out, pc, calls>>

\* the caller moves on to the board result() returned
Descend ==
    /\ pc = "play"
    /\ child # NoBoard
    /\ board' = child
    /\ child' = NoBoard
    /\ lastMove' = NoMove
    /\ expansions' = 0
    /\ UNCHANGED <<game, order, registry, out, pc, calls>>

\* play_game's loop body with a legal move: state = game.result(state, move)
Play(square) ==
    /\ pc = "play"
    /\ ~IsTerminal(game, board)
    /\ square \in Actions(game, board)
    /\ board' = Result(game, board, square)
    /\ UNCHANGED <<game, order, child, lastMove, expansions, registry, out, pc, calls>>

\* heuristic_5x5_tictactoe(board, player)
Evaluate(player) ==
    /\ pc = "play"
    /\ out' = [kind |-> "heuristic", player |-> player,
               v |-> heuristic_5x5_tictactoe(board, player)]
    /\ pc' = "done"
    /\ UNCHANGED <<game, order, board, child, lastMove, expansions, registry, calls>>

\* what a minimax_search_tt call leaves: its return value and the registry
MinimaxCall(r) ==
    [out |-> [kind |-> "minimax", v |-> r.v, move |-> r.move, raised |-> r.mem.raised,
              hits |-> r.mem.hits, deep |-> r.mem.deep, stray |-> r.mem.stray,
              skew |-> r.mem.skew],
     reg |-> AsFunction(r.mem.reg)]

\* minimax_search_tt(game, board)
MinimaxSearch(ord) ==
    /\ pc = "play"
    /\ SearchAllowed(game, board)
    /\ order' = ord
    /\ \E x \in {MinimaxCall(minimax_search_tt(game, ord, registry, board))} :
          /\ out' = x.out
          /\ registry' = x.reg
    /\ pc' = "done"
    /\ UNCHANGED <<game, board, child, lastMove, expansions, calls>>

\* what an h_alphabeta_search call returns
AlphaBetaCall(d, h, r) ==
    [kind |-> "alphabeta", d |-> d, h |-> h, v |-> r.v, move |-> r.move,
     hc |-> r.stat.hc, cuts |-> r.stat.cuts, nodes |-> r.stat.nodes]

\* h_alphabeta_search(game, board, cutoff_depth(d), h)
AlphaBetaSearch(ord, d, h) ==
    /\ pc = "play"
    /\ Empties(game, board) <= MaxEmpty
    /\ order' = ord
    /\ out' = AlphaBetaCall(d, h, h_alphabeta_search(game, ord, board, d, h))
    /\ pc' = "done"
    /\ UNCHANGED <<game, board, child, lastMove, expansions, registry, calls>>

\* play_game's loop body during the first MaxOpening moves of a game
PlayOpening(square) ==
    /\ Cardinality(DOMAIN board.marks) < MaxOpening
    /\ Play(square)

\* the empty squares that end a run of three marks of p: the three squares
\* next to them along one direction all hold p
ThreatSquares(g, b, p) ==
    {e \in Actions(g, b) :
        \E d \in Directions, sgn \in {-1, 1} :
            \A i \in 1 .. 3 :
                Get(b, <<e[1] + sgn * i * d[1], e[2] + sgn * i * d[2]>>) = p}

\* h_alphabeta_search(game, board, cutoff_depth(d), heuristic_5x5_tictactoe)
\* called by the player to move when the other player has three in a row
\* with the fourth square of the run empty
BlockSearch(ord, d) ==
    /\ pc = "play"
    /\ ~IsTerminal(game, board)
    /\ ThreatSquares(game, board, Other(board.to_move)) # {}
    /\ order' = ord
    /\ out' = AlphaBetaCall(d, "h5x5", h_alphabeta_search(game, ord, board, d, "h5x5"))
    /\ pc' = "done"
    /\ UNCHANGED <<game, board, child, lastMove, expansions, registry, calls>>

\* What a strategy call hands back to play_game: a (value, move) pair, a bare
\* move, a bare number, or a raised exception (exc).
ReturnPair(v, move) == [type |-> "pair", v |-> v, move |-> move, exc |-> "none"]
ReturnMove(move) == [type |-> "move", v |-> 0, move |-> move, exc |-> "none"]
ReturnItem(v) == [type |-> "item", v |-> v, move |-> NoMove, exc |-> "none"]
RaiseError(exc) == [type |-> "raise", v |-> 0, move |-> NoMove, exc |-> exc]

\* cutoff_depth(6), the default cutoff of h_alphabeta_search
DefaultCutoff == 6

\* what a call of minimax_search_tt hands back: its pair, or the KeyError of
\* state_from_hash
SearchReturn(r) ==
    IF r.mem.raised THEN RaiseError("KeyError") ELSE ReturnPair(r.v, r.move)

\* minimax_player(game, state): return minimax_search_tt(game, state)
minimax_player(g, ord, reg, state) ==
    SearchReturn(minimax_search_tt(g, ord, reg, state))

\* alphabeta_player(game, state, cutoff, h) called as play_game calls a
\* strategy, with (game, state) only: cutoff and h are missing
alphabeta_player(g, ord, reg, state) == RaiseError("TypeError")

\* what a call of h_alphabeta_search hands back: its pair
AlphaBetaReturn(r) == ReturnPair(r.v, r.move)

\* the searches handed to player(): called as search_algorithm(game, state)
Search(name, g, ord, reg, state) ==
    IF name = "minimax_search_tt"
    THEN SearchReturn(minimax_search_tt(g, ord, reg, state))
    ELSE AlphaBetaReturn(h_alphabeta_search(g, ord, state, DefaultCutoff, "zero"))

\* chooser's `if isinstance(out, tuple) and len(out) == 2: return out[1]`,
\* true of a pair and also of a bare (x, y) move; else `return out`
Extract(ret) ==
    CASE ret.type = "pair" -> ReturnMove(ret.move)
      [] ret.type = "move" -> ReturnItem(ret.move[2])
      [] OTHER -> ret

\* player(search_algorithm).chooser(game, state)
chooser(name, g, ord, reg, state) == Extract(Search(name, g, ord, reg, state))

\* the strategies play_game can be given
Strategies ==
    {"minimax_player", "alphabeta_player",
     "player(minimax_search_tt)", "player(h_alphabeta_search)"}

Strategy(s, g, ord, reg, state) ==
    CASE s = "minimax_player" -> minimax_player(g, ord, reg, state)
      [] s = "alphabeta_player" -> alphabeta_player(g, ord, reg, state)
      [] s = "player(minimax_search_tt)" -> chooser("minimax_search_tt", g, ord, reg, state)
      [] OTHER -> chooser("h_alphabeta_search", g, ord, reg, state)

\* play_game: move = strategies[player_to_move](game, state)
CallStrategy(s, ord) ==
    /\ pc = "play"
    /\ ~IsTerminal(game, board)
    /\ SearchAllowed(game, board)
    /\ order' = ord
    /\ out' = [kind |-> "strategy", strategy |-> s,
               ret |-> Strategy(s, game, ord, registry, board)]
    /\ pc' = "done"
    /\ UNCHANGED <<game, board, child, lastMove, expansions, registry, calls>>

\* the game rules as a search or play_game drives them
Next ==
    \/ \E square \in Squares(game) : Expand(square)
    \/ Descend

Spec == Init /\ [][Next]_vars

\* boards reached by legal play, scored by the heuristic
NextHeuristic ==
    \/ \E square \in Squares(game) : Play(square)
    \/ \E player \in {"X", "O"} : Evaluate(player)

SpecHeuristic == Init /\ [][NextHeuristic]_vars

\* boards reached by legal play, searched by minimax_search_tt
NextMinimax ==
    \/ \E square \in Squares(game) : Play(square)
    \/ \E ord \in 1 .. NumOrders : MinimaxSearch(ord)

SpecMinimax == Init /\ [][NextMinimax]_vars

\* boards reached by legal play, searched by h_alphabeta_search
NextAlphaBeta ==
    \/ \E square \in Squares(game) : Play(square)
    \/ \E ord \in 1 .. NumOrders, d \in 0 .. MaxDepth, h \in Heuristics :
          AlphaBetaSearch(ord, d, h)

SpecAlphaBeta == Init /\ [][NextAlphaBeta]_vars

\* boards reached by legal play, on which play_game calls a strategy
NextPlayers ==
    \/ \E square \in Squares(game) : Play(square)
    \/ \E s \in Strategies, ord \in 1 .. NumOrders : CallStrategy(s, ord)

SpecPlayers == Init /\ [][NextPlayers]_vars

\* TicTacToe(height=4, width=4, k=4): openings played by legal moves, then a
\* threat position searched by h_alphabeta_search
Game4 == [width |-> 4, height |-> 4, k |-> 4]

InitBlock ==
    /\ game = Game4
    /\ order = 1
    /\ board = Initial(game)
    /\ child = NoBoard
    /\ lastMove = NoMove
    /\ expansions = 0
    /\ registry = << >>
    /\ calls = IdleCalls
    /\ out = NoOut
    /\ pc = "play"

NextBlock ==
    \/ \E square \in Squares(game) : PlayOpening(square)
    \/ \E ord \in 1 .. NumOrders, d \in 1 .. MaxBlockDepth : BlockSearch(ord, d)

SpecBlock == InitBlock /\ [][NextBlock]_vars

\* the squares a caller may hand to result(): the grid and a margin of one
\* cell around it
AnySquares(g) == (-1 .. g.width) \X (-1 .. g.height)

\* game.result(board, square) called with any square, legal or not, on a board
\* reached by legal play: the call returns (exc = "none") the Board child
ResultOn(square) ==
    /\ pc = "play"
    /\ \E hp \in {ResultHeap(game, board, square)} :
          /\ board' = hp[1]
          /\ child' = hp[2]
    /\ lastMove' = square
    /\ out' = [kind |-> "result", exc |-> "none"]
    /\ pc' = "done"
    /\ UNCHANGED <<game, order, expansions, registry, calls>>

NextMisuse ==
    \/ \E square \in Squares(game) : PlayOpening(square)
    \/ \E square \in AnySquares(game) : ResultOn(square)

SpecMisuse == Init /\ [][NextMisuse]_vars

\* boards reached by legal play, searched by h_alphabeta_search with the
\* window heuristic
NextCutoff ==
    \/ \E square \in Squares(game) : Play(square)
    \/ \E ord \in 1 .. NumOrders, d \in 0 .. MaxDepth : AlphaBetaSearch(ord, d, "h5x5")

SpecCutoff == Init /\ [][NextCutoff]_vars

\* child = game.result(board, square) for an empty square of any board, won
\* boards included: result() does not look at is_terminal
Continue(square) ==
    /\ pc = "play"
    /\ expansions < MaxSiblings
    /\ square \in Actions(game, board)
    /\ \E hp \in {ResultHeap(game, board, square)} :
          /\ board' = hp[1]
          /\ child' = hp[2]
    /\ lastMove' = square
    /\ expansions' = expansions + 1
    /\ UNCHANGED <<game, order, registry, out, pc, calls>>

\* chains of result() applications from the initial board
NextChain ==
    \/ \E square \in Squares(game) : Continue(square)
    \/ Descend

SpecChain == Init /\ [][NextChain]_vars

\* hash_state calls made by the callers of SpecKeys
MaxRegistered == 1

\* board = game.result(board, square) for an empty square of any board
PlayOn(square) ==
    /\ pc = "play"
    /\ square \in Actions(game, board)
    /\ board' = Result(game, board, square)
    /\ UNCHANGED <<game, order, child, lastMove, expansions, registry, out, pc, calls>>

\* hash_state(board): _state_registry[hash(board)] = board
HashState ==
    /\ pc = "play"
    /\ Cardinality(DOMAIN registry) < MaxRegistered
    /\ registry' = AsFunction(hash_state(AsDict(registry), board)[2])
    /\ UNCHANGED <<game, order, board, child, lastMove, expansions, out, pc, calls>>

\* the caller starts another chain from game.initial
StartAgain ==
    /\ pc = "play"
    /\ board # Initial(game)
    /\ board' = Initial(game)
    /\ UNCHANGED <<game, order, child, lastMove, expansions, registry, out, pc, calls>>

\* TicTacToe(height=2, width=3, k=2): chains of result() applications whose
\* boards are handed to hash_state
InitKeys ==
    /\ game = [width |-> 3, height |-> 2, k |-> 2]
    /\ order = 1
    /\ board = Initial(game)
    /\ child = NoBoard
    /\ lastMove = NoMove
    /\ expansions = 0
    /\ registry = << >>
    /\ calls = IdleCalls
    /\ out = NoOut
    /\ pc = "play"

NextKeys ==
    \/ \E square \in Squares(game) : PlayOn(square)
    \/ HashState
    \/ StartAgain

SpecKeys == InitKeys /\ [][NextKeys]_vars

\* thread t enters minimax_search_tt(game, board) and evaluates the argument
\* of its last line, hash_state(state): _state_registry[h] = state
CallHash(t) ==
    /\ pc \in {"play", "search"}
    /\ calls.pc[t] = "idle"
    /\ Empties(game, board) <= MaxEmpty
    /\ \E hs \in {hash_state(AsDict(registry), board)} :
          /\ registry' = AsFunction(hs[2])
          /\ calls' = [calls EXCEPT
                          !.pc[t] = "hashed",
                          !.h[t] = hs[1],
                          !.inherited[t] = Cardinality(DOMAIN registry),
                          !.writer = [k \in DOMAIN @ \cup {hs[1]} |->
                                         IF k = hs[1] THEN t ELSE @[k]]]
    /\ pc' = "search"
    /\ UNCHANGED <<game, order, board, child, lastMove, expansions, out>>

\* what the rest of the call of thread t leaves: max_value(h) with fresh lru
\* caches, run to its return r without another thread in between.  Its first
\* step is state_from_hash(h); every other key it looks up it stored itself.
CallReturn(t, r) ==
    [out |-> MinimaxCall(r).out,
     reg |-> MinimaxCall(r).reg,
     calls |-> [calls EXCEPT
                   !.pc[t] = "done",
                   !.v[t] = r.v,
                   !.readFrom[t] = calls.writer[calls.h[t]],
                   !.writer = [k \in DOMAIN MinimaxCall(r).reg |->
                                  IF k = calls.h[t] THEN @[k] ELSE t]]]

\* thread t runs max_value(h) from state_from_hash(h) to the return
CallBody(t) ==
    /\ calls.pc[t] = "hashed"
    /\ \E x \in {CallReturn(t, max_value_tt(
                    [c |-> [g |-> game, ord |-> order, player |-> board.to_move,
                            marks |-> Cardinality(DOMAIN board.marks)],
                     mem |-> NewMem(AsDict(registry)), h |-> calls.h[t], lvl |-> 0,
                     b |-> board]))} :
          /\ out' = x.out
          /\ registry' = x.reg
          /\ calls' = x.calls
    /\ UNCHANGED <<game, order, board, child, lastMove, expansions, pc>>

\* boards reached by legal play, searched by minimax_search_tt on NumThreads
\* threads, one call each; a thread can be preempted between hash_state and
\* max_value
NextThreads ==
    \/ \E square \in Squares(game) : Play(square)
    \/ \E t \in Threads : CallHash(t)
    \/ \E t \in Threads : CallBody(t)

SpecThreads == Init /\ [][NextThreads]_vars

\* iteration orders of actions() a strategy call of play_game may meet
GameOrders == 3

\* one strategy call of play_game with strategies[p] = player(minimax_search_tt):
\* what chooser hands back, and what the search call leaves
Turn(r) == [ret |-> Extract(SearchReturn(r)), call |-> MinimaxCall(r)]

\* play_game's loop body, both strategies player(minimax_search_tt):
\* move = strategies[state.to_move](game, state); state = game.result(state, move).
\* An exception raised by the strategy ends play_game.
PlayTurn(ord) ==
    /\ pc = "play"
    /\ ~IsTerminal(game, board)
    /\ order' = ord
    /\ \E x \in {Turn(minimax_search_tt(game, ord, registry, board))} :
          /\ out' = x.call.out
          /\ registry' = x.call.reg
          /\ IF x.ret.type = "move"
             THEN /\ board' = Result(game, board, x.ret.move)
                  /\ lastMove' = x.ret.move
                  /\ pc' = "play"
             ELSE /\ board' = board
                  /\ lastMove' = NoMove
                  /\ pc' = "done"
    /\ UNCHANGED <<game, child, expansions, calls>>

\* play_game(TicTacToe(3, 3, 3), {X: player(minimax_search_tt),
\*                               O: player(minimax_search_tt)})
InitGame ==
    /\ game = [width |-> 3, height |-> 3, k |-> 3]
    /\ order = 1
    /\ board = Initial(game)
    /\ child = NoBoard
    /\ lastMove = NoMove
    /\ expansions = 0
    /\ registry = << >>
    /\ calls = IdleCalls
    /\ out = NoOut
    /\ pc = "play"

NextGame == \E ord \in 1 .. GameOrders : PlayTurn(ord)

\* play_game's while loop keeps running while the state is not terminal: weak
\* fairness of NextGame.  NextGame is enabled exactly when its guard holds
\* (pc = "play" and the state is not terminal) and every NextGame step changes
\* vars, so the fairness condition is written with the guard and <<TRUE>>_vars
\* in the places of ENABLED <<NextGame>>_vars and <<NextGame>>_vars.
GameFairness ==
    \/ []<>(pc # "play" \/ IsTerminal(game, board))
    \/ []<><<TRUE>>_vars

SpecGame == InitGame /\ [][NextGame]_vars /\ GameFairness

(***************************************************************************)
(* Properties of the game rules (specification Spec)                       *)
(***************************************************************************)
\* the marks, in-grid empties and off-grid cells of a board, read cell by cell
Occupied(b) ==
    {s \in (0 .. b.width - 1) \X (0 .. b.height - 1) : Get(b, s) \in {"X", "O"}}

\* offsets j such that every cell from m to m + j*d (both included) holds p
RunOffsets(b, p, m, d) ==
    LET n == Max(b.width, b.height)
    IN  {j \in -n .. n :
            \A i \in Min(0, j) .. Max(0, j) :
                Get(b, <<m[1] + i * d[1], m[2] + i * d[2]>>) = p}

\* length of the contiguous run of p's marks through m along axis d
RunLength(b, p, m, d) == Cardinality(RunOffsets(b, p, m, d))

LongestRun(b, p, m) ==
    CHOOSE n \in 0 .. Max(b.width, b.height) :
        /\ \E d \in Directions : RunLength(b, p, m, d) = n
        /\ \A d \in Directions : RunLength(b, p, m, d) <= n

\* C6: result(b, m) leaves its input board unchanged: whenever result() has
\* just returned a child, the board it was called on has the same occupied
\* cells, to_move and utility as before the call, also on repeated expansion
\* of the same board for sibling moves.
C6_ResultLeavesInput ==
    [][child' # NoBoard =>
          /\ board'.marks = board.marks
          /\ board'.to_move = board.to_move
          /\ board'.utility = board.utility]_vars

\* the same board has been expanded for a second sibling move
C6_Witness ==
    /\ child # NoBoard
    /\ expansions = 2
    /\ Cardinality(DOMAIN board.marks) >= 2

\* C7: for a non-terminal board b and a legal move m, result(b, m) has utility
\* +1 (mover X) or -1 (mover O) exactly when some axis through m carries a
\* contiguous run of the mover's marks of length >= k, and utility 0 otherwise
\* (so a longest run of k wins and a longest run of k-1 does not).
C7_WinIffRun ==
    child # NoBoard =>
        LET mover == board.to_move
            longest == LongestRun(child, mover, lastMove)
        IN  /\ longest >= game.k => child.utility = (IF mover = "X" THEN 1 ELSE -1)
            /\ longest < game.k => child.utility = 0

\* a placement whose run is longer than k wins for X
C7_Witness ==
    /\ child # NoBoard
    /\ board.to_move = "X"
    /\ LongestRun(child, "X", lastMove) > game.k
    /\ child.utility = 1

\* C8: on every reachable non-terminal board the number of legal moves is
\* width*height minus the number of occupied cells, and on every reachable
\* board the set of legal moves is empty only when the grid is full.
C8_ActionsCount ==
    /\ ~IsTerminal(game, board) =>
          Cardinality(Actions(game, board))
              = board.width * board.height - Cardinality(Occupied(board))
    /\ \A b \in {board, child} \ {NoBoard} :
          Actions(game, b) = {} =>
              Cardinality(Occupied(b)) = b.width * b.height

\* a non-terminal board with a single legal move left
C8_Witness ==
    /\ ~IsTerminal(game, board)
    /\ Cardinality(Occupied(board)) = board.width * board.height - 1
    /\ Cardinality(Actions(game, board)) = 1

\* whole-board scan: some k consecutive cells of a row, a column or a
\* diagonal of the grid all hold p
HasRun(b, p, k) ==
    \E s \in (0 .. b.width - 1) \X (0 .. b.height - 1) :
        \E d \in {<<1, 0>>, <<0, 1>>, <<1, 1>>, <<1, -1>>} :
            \A i \in 0 .. k - 1 : Get(b, <<s[1] + i * d[1], s[2] + i * d[2]>>) = p

\* C19: on every board reached by legal play that stops at terminal boards the
\* stored utility agrees with a scan of the whole board: +1 exactly when X has
\* a run of at least k, -1 exactly when O has one, 0 exactly when neither
\* has, and never both.
C19_UtilityMatchesScan ==
    \A b \in {board, child} \ {NoBoard} :
        /\ b.utility = 1 <=> HasRun(b, "X", game.k)
        /\ b.utility = -1 <=> HasRun(b, "O", game.k)
        /\ b.utility = 0 <=> (~HasRun(b, "X", game.k) /\ ~HasRun(b, "O", game.k))
        /\ ~(HasRun(b, "X", game.k) /\ HasRun(b, "O", game.k))

\* O has just completed a diagonal run on a board where X holds k - 1 in a row
C19_Witness ==
    /\ child # NoBoard
    /\ child.utility = -1
    /\ HasRun(child, "O", game.k)
    /\ \E d \in {<<1, 1>>, <<1, -1>>} : RunLength(child, "O", lastMove, d) >= game.k
    /\ HasRun(child, "X", game.k - 1)

\* number of squares of b that hold p
CountOf(b, p) == Cardinality({s \in DOMAIN b.marks : b.marks[s] = p})

\* C20: on every reachable board the number of X marks minus the number of O
\* marks is 0 or 1, to_move is X exactly when the two are equal, and each
\* result() adds exactly one mark, that of the player who was to move, and
\* leaves every earlier mark in place.
C20_MarksAlternate ==
    /\ \A b \in {board, child} \ {NoBoard} :
          /\ CountOf(b, "X") - CountOf(b, "O") \in {0, 1}
          /\ b.to_move = "X" <=> CountOf(b, "X") = CountOf(b, "O")
          /\ b.to_move \in {"X", "O"}
    /\ child # NoBoard =>
          /\ lastMove \notin DOMAIN board.marks
          /\ DOMAIN child.marks = DOMAIN board.marks \cup {lastMove}
          /\ child.marks[lastMove] = board.to_move
          /\ \A s \in DOMAIN board.marks : child.marks[s] = board.marks[s]

\* O has just placed the mark that fills the 4x2 grid
C20_Witness ==
    /\ child # NoBoard
    /\ board.to_move = "O"
    /\ CountOf(child, "X") = CountOf(child, "O")
    /\ Cardinality(DOMAIN child.marks) = 8
    /\ child.to_move = "X"

(***************************************************************************)
(* Properties of the heuristic (specification SpecHeuristic)               *)
(***************************************************************************)
\* C9: on any fixed board the heuristic for X is the negation of the heuristic
\* for O: the value returned for one player is minus the value for the other.
C9_HeuristicAntisymmetric ==
    out.kind = "heuristic" =>
        out.v = -heuristic_5x5_tictactoe(board, Other(out.player))

\* a board holding both marks with a nonzero score
C9_Witness ==
    /\ out.kind = "heuristic"
    /\ out.v > 0
    /\ \E s, t \in DOMAIN board.marks : board.marks[s] = "X" /\ board.marks[t] = "O"

\* the k-cell windows lying entirely inside the grid, along rows, columns and
\* both diagonal directions, each as the set of its cells
GridWindows(w, h, k) ==
    {cells \in {{<<x0 + i * d[1], y0 + i * d[2]>> : i \in 0 .. k - 1} :
                    x0 \in 0 .. w - 1, y0 \in 0 .. h - 1, d \in Directions} :
        \A c \in cells : 0 <= c[1] /\ c[1] < w /\ 0 <= c[2] /\ c[2] < h}

\* +10^c for c >= 1 marks of p and none of the opponent, -10^c for c >= 1
\* opponent marks and none of p, 0 otherwise
WindowScore(b, p, cells) ==
    LET mine == Cardinality({c \in cells : Get(b, c) = p})
        theirs == Cardinality({c \in cells : Get(b, c) = Other(p)})
    IN  IF mine >= 1 /\ theirs = 0 THEN 10 ^ mine
        ELSE IF theirs >= 1 /\ mine = 0 THEN -(10 ^ theirs)
        ELSE 0

RECURSIVE WindowSum(_, _, _)
WindowSum(b, p, ws) ==
    IF ws = {} THEN 0
    ELSE LET w == CHOOSE x \in ws : TRUE
         IN  WindowScore(b, p, w) + WindowSum(b, p, ws \ {w})

\* C10: on every board, square or not, the heuristic equals the sum of the
\* window scores over exactly the k-cell windows lying inside the grid.
C10_SumOverGridWindows ==
    out.kind = "heuristic" =>
        out.v = WindowSum(board, out.player,
                          GridWindows(board.width, board.height, game.k))

(***************************************************************************)
(* Properties of minimax_search_tt (specification SpecMinimax)             *)
(***************************************************************************)
\* plain minimax: backward induction from player's point of view, recursing
\* into every child, with no cache and no registry
RECURSIVE PlainValue(_, _, _, _)
PlainValue(g, player, b, isMax) ==
    IF IsTerminal(g, b) THEN Utility(b, player)
    ELSE LET vals == {PlainValue(g, player, Result(g, b, s), ~isMax) :
                          s \in Actions(g, b)}
         IN  IF isMax THEN CHOOSE v \in vals : \A w \in vals : w <= v
             ELSE CHOOSE v \in vals : \A w \in vals : v <= w

\* C1: on every searched board, minimax_search_tt returns (without raising)
\* the backward-induction value of the board for the player to move, the
\* value a plain minimax without any cache computes.
C1_MemoEqualsPlain ==
    out.kind = "minimax" =>
        /\ ~out.raised
        /\ out.v = PlainValue(game, board.to_move, board, TRUE)

\* a search from a non-initial board that reused cached results and saw a win
C1_Witness ==
    /\ out.kind = "minimax"
    /\ board # Initial(game)
    /\ ~IsTerminal(game, board)
    /\ out.hits > 0
    /\ out.v = 1

\* C2: on the 3x3 grid with k = 3, minimax_search_tt on the empty initial
\* board (X to move) returns value 0.
C2_EmptyBoardDraw ==
    (/\ out.kind = "minimax"
     /\ game = [width |-> 3, height |-> 3, k |-> 3]
     /\ board = Initial(game))
        => out.v = 0

\* the search of the empty 3x3 board has returned, after cache hits, having
\* reached full boards
C2_Witness ==
    /\ out.kind = "minimax"
    /\ game = [width |-> 3, height |-> 3, k |-> 3]
    /\ board = Initial(game)
    /\ out.hits > 0
    /\ out.deep = 9

\* C17: during a minimax_search_tt call that runs alone, every
\* state_from_hash(h) finds an entry, and the board it returns is the board
\* whose key h was just passed, never another board.
C17_LookupReturnsHashedBoard ==
    out.kind = "minimax" => (~out.raised /\ ~out.stray)

\* a search from the initial board of a game: thousands of lookups, and keys
\* that were registered more than once (cache hits)
C17_Witness ==
    /\ out.kind = "minimax"
    /\ board = Initial(game)
    /\ out.hits > 0
    /\ out.deep > MaxEmpty
    /\ ~out.raised
    /\ ~out.stray
    /\ Cardinality(DOMAIN registry) > 1000

\* C18: minimax_search_tt returns on every searched board: every recursive
\* call runs on a board with exactly one more mark than its parent's, the
\* recursion is never deeper than the number of empty cells of the root, and
\* the value returned is -1, 0 or +1.
C18_SearchTerminates ==
    out.kind = "minimax" =>
        /\ ~out.raised
        /\ ~out.skew
        /\ out.deep <= Empties(game, board)
        /\ out.v \in {-1, 0, 1}

\* a search of a non-terminal board that went down to a full grid
C18_Witness ==
    /\ out.kind = "minimax"
    /\ ~IsTerminal(game, board)
    /\ Empties(game, board) = MaxEmpty
    /\ out.deep = Empties(game, board)
    /\ ~out.skew
    /\ out.v \in {-1, 0, 1}

(***************************************************************************)
(* Properties of h_alphabeta_search (specification SpecAlphaBeta)          *)
(***************************************************************************)
\* C3: on a searched board with r empty cells, h_alphabeta_search with
\* cutoff_depth(d), d >= r, and any heuristic returns the value that
\* minimax_search_tt returns on that board, and never calls the heuristic.
C3_FullDepthEqualsMinimax ==
    (out.kind = "alphabeta" /\ out.d >= Empties(game, board)) =>
        /\ out.v = minimax_search_tt(game, order, registry, board).v
        /\ out.hc = 0

\* a full-depth search with the window heuristic that pruned a loop
C3_Witness ==
    /\ out.kind = "alphabeta"
    /\ out.h = "h5x5"
    /\ Empties(game, board) = 3
    /\ out.d >= Empties(game, board)
    /\ out.cuts > 0
    /\ out.v = 0

(***************************************************************************)
(* Blocking a threat (specification SpecBlock)                             *)
(***************************************************************************)
\* the moves after which player p has no immediately winning reply
SafeMoves(g, b, p) ==
    {m \in Actions(g, b) :
        LET after == Result(g, b, m)
        IN  \/ IsTerminal(g, after)
            \/ \A reply \in Actions(g, after) :
                   Utility(Result(g, after, reply), p) # 1}

\* C4: when the opponent has three in a row with the fourth cell of the run
\* empty and a move exists after which the opponent cannot win at once,
\* h_alphabeta_search with cutoff_depth(d), d >= 1, and the window heuristic
\* returns such a move.
C4_BlocksImmediateWin ==
    (/\ out.kind = "alphabeta"
     /\ out.d >= 1
     /\ out.h = "h5x5"
     /\ ThreatSquares(game, board, Other(board.to_move)) # {}
     /\ SafeMoves(game, board, Other(board.to_move)) # {})
        => out.move \in SafeMoves(game, board, Other(board.to_move))

(***************************************************************************)
(* Player strategies (specification SpecPlayers)                           *)
(***************************************************************************)
\* C5: every strategy of the module, called as (game, state) on a
\* non-terminal state, returns a single move that is a member of
\* actions(state), not the (value, move) pair and not an exception.
C5_StrategyReturnsLegalMove ==
    out.kind = "strategy" =>
        /\ out.ret.type = "move"
        /\ out.ret.move \in Actions(game, board)

(***************************************************************************)
(* play_game with two minimax players (specification SpecGame)             *)
(***************************************************************************)
GameDrawn ==
    /\ Cardinality(DOMAIN board.marks) = 9
    /\ DOMAIN board.marks = Squares(game)
    /\ board.utility = 0

\* C11: play_game on the empty 3x3 board with k = 3, X and O both playing the
\* move returned by minimax_search_tt, ends, and it ends only after exactly
\* nine moves, on a board with all nine cells occupied and utility 0.
C11_MinimaxGameIsDraw ==
    /\ [](pc = "play")
    /\ [](IsTerminal(game, board) => GameDrawn)
    /\ <>[](IsTerminal(game, board) /\ GameDrawn)

C11_Witness ==
    /\ out.kind = "minimax"
    /\ IsTerminal(game, board)
    /\ GameDrawn
    /\ lastMove \in Squares(game)

(***************************************************************************)
(* result() on squares that are not legal moves (specification SpecMisuse) *)
(***************************************************************************)
\* the board that came back keeps every mark of the input and holds marks on
\* grid squares only
NothingOverwritten(g, b, nb) ==
    /\ \A s \in DOMAIN b.marks : s \in DOMAIN nb.marks /\ nb.marks[s] = b.marks[s]
    /\ DOMAIN nb.marks \subseteq Squares(g)

\* C12: result(board, move) with a move that is occupied or off the grid fails
\* with InvalidMoveError, and hands back no board in which an existing mark is
\* overwritten or a cell outside the grid is occupied.
C12_IllegalMoveRejected ==
    (out.kind = "result" /\ lastMove \notin Actions(game, board))
        => /\ out.exc = "InvalidMoveError"
           /\ child = NoBoard \/ NothingOverwritten(game, board, child)

(***************************************************************************)
(* Chains of result() applications (specification SpecChain)               *)
(***************************************************************************)
\* C13: along a chain of result() applications from the initial board, every
\* board derived from a board with nonzero utility carries that same utility
\* (so utility becomes nonzero at most once, at the placement that makes the
\* winning run).
C13_UtilityCarriedOn ==
    (child # NoBoard /\ board.utility # 0) => child.utility = board.utility

(***************************************************************************)
(* Pruning under a depth cutoff (specification SpecCutoff)                 *)
(***************************************************************************)
\* the depth-limited recursion of h_alphabeta_search without alpha, beta and
\* the two early returns: every child of every node above the cutoff is valued
RECURSIVE UnprunedValue(_, _, _, _, _, _)
UnprunedValue(g, player, b, d, depth, isMax) ==
    IF IsTerminal(g, b) THEN Utility(b, player)
    ELSE IF depth > d THEN heuristic_5x5_tictactoe(b, player)
    ELSE LET vals == {UnprunedValue(g, player, Result(g, b, s), d, depth + 1, ~isMax) :
                          s \in Actions(g, b)}
         IN  IF isMax THEN CHOOSE v \in vals : \A w \in vals : w <= v
             ELSE CHOOSE v \in vals : \A w \in vals : v <= w

\* C14: for every searched board and every cutoff depth d >= 0, with
\* h = heuristic_5x5_tictactoe, the root value h_alphabeta_search returns is
\* the root value of the same depth-limited recursion without pruning.
C14_PruningKeepsRootValue ==
    (out.kind = "alphabeta" /\ out.h = "h5x5") =>
        out.v = UnprunedValue(game, board.to_move, board, out.d, 0, TRUE)

\* a search that was cut off by depth, called the heuristic and pruned a loop
C14_Witness ==
    /\ out.kind = "alphabeta"
    /\ out.h = "h5x5"
    /\ out.d < Empties(game, board)
    /\ out.hc > 0
    /\ out.cuts > 0
    /\ out.v = UnprunedValue(game, board.to_move, board, out.d, 0, TRUE)

(***************************************************************************)
(* The key of a board (specification SpecKeys)                             *)
(***************************************************************************)
\* C15: the key under which a board is registered and memoised depends on its
\* marks and its active player only, and on no derived field: a board with the
\* marks and the active player of a registered board has that board's key.
C15_KeyFromMarksAndMover ==
    \A h \in DOMAIN registry :
        (registry[h].marks = board.marks /\ registry[h].to_move = board.to_move)
            => BoardHash(board) = h

(***************************************************************************)
(* Calls that share the registry (specification SpecThreads)               *)
(***************************************************************************)
\* C16: the memoisation state of a minimax_search_tt call (cached results and
\* the key -> state table) is created fresh for the call, and no entry that
\* one call wrote is read by another call, whether the calls follow one
\* another or interleave.
C16_MemoStatePerCall ==
    \A t \in Threads :
        /\ calls.pc[t] # "idle" => calls.inherited[t] = 0
        /\ calls.pc[t] = "done" => calls.readFrom[t] = t

=============================================================================
